---- MODULE Spec2Model ----
(***************************************************************************)
(* A model of cli_wrapper: the configuration merge (configuration.py) and  *)
(* the three ways of running the entry point (code_runners.py).            *)
(*                                                                         *)
(* One behaviour of the model is one call of one of the functions          *)
(*   _merge_dicts, build_config_file, wrap_with_shell_command,             *)
(*   run_script, cprofile                                                  *)
(* on inputs drawn from small sets.  The variable `call` names the         *)
(* function; the variables of the other functions stay idle.               *)
(***************************************************************************)
EXTENDS Integers, Sequences, FiniteSets, TLC

VARIABLES
    call,        \* the function this behaviour calls
    \* ---- _merge_dicts(obj, update)
    m_obj,       \* argument obj
    m_update,    \* argument update
    m_result,    \* the returned value, NotYet before the call returns
    \* ---- build_config_file(*filenames)
    filenames,   \* the argument: a sequence of files
    c_pc,        \* "open" | "load" | "write" | "returned" | "raised" | "idle"
    c_i,         \* index of the file the loop is at (1-based)
    obj,         \* the accumulator (line 60)
    opened,      \* indexes of the sources opened so far, in order
    parsed,      \* indexes of the sources parsed so far, in order
    merged,      \* indexes of the sources merged into obj so far, in order
    c_error,     \* the exception that ended the call, or "none"
    prior,       \* content of ROOT_CONFIG_FILE before the call
    persisted,   \* content of ROOT_CONFIG_FILE now
    \* ---- shared by wrap_with_shell_command, run_script and cprofile
    outfile,     \* the argument outfile: "None" or "path"
    \* ---- wrap_with_shell_command(cmd, script, outfile, write_mode)
    s_pc,        \* the parent: "start" | "loop" | "wait" | "exit" | "except" | "terminated" | "idle"
    s_status,    \* the parent's exit status: "none" while it runs
    process,     \* the child: "none" | "running" | "exited"
    returncode,  \* the child's exit code: "none" while it runs
    to_write,    \* output the child has still to write before it exits
    pipe,        \* bytes in the stdout pipe, which nobody reads
    received,    \* KeyboardInterrupts raised in the parent
    sent,        \* SIGINTs the parent sent to the child
    \* ---- run_script(script, globals, outfile, write_mode, as_module), cprofile
    r_pc,        \* "start" | "running" | "returned" | "raised" | "idle"
    as_module,   \* the argument as_module
    g_name,      \* make_script_globals' argument name
    g_kwargs,    \* make_script_globals' argument kwargs
    G,           \* the mapping make_script_globals returned
    ns,          \* the global namespace the target runs in
    steps,       \* statements the target has run
    runner,      \* what runs the target: "run_module" | "run_path" | "exec"
    runner_arg,  \* how the target is named to the runner: "stem" | "resolved_path" | "code"
    prior_out,   \* sys.stdout before the call
    prior_err,   \* sys.stderr before the call
    sys_stdout,  \* sys.stdout now
    sys_stderr,  \* sys.stderr now
    old_targets, \* what the two redirect contexts saved: <<stderr, stdout>>
    outstream    \* the handle of outfile: "none" | "open" | "closed"

cfgvars == <<filenames, c_pc, c_i, obj, opened, parsed, merged, c_error, prior, persisted>>
mergevars == <<m_obj, m_update, m_result>>
shellvars == <<s_pc, s_status, process, returncode, to_write, pipe, received, sent>>
runvars == <<r_pc, as_module, g_name, g_kwargs, G, ns, steps, runner, runner_arg,
             prior_out, prior_err, sys_stdout, sys_stderr, old_targets, outstream>>
vars == <<call, outfile, mergevars, cfgvars, shellvars, runvars>>

----------------------------------------------------------------------------
(* Parsed JSON / YAML values.  A value is a tagged record, so that a       *)
(* mapping, a scalar, a sequence and null are told apart the way           *)
(* isinstance tells them apart.                                            *)

Null == [t |-> "null"]
Num(n) == [t |-> "int", v |-> n]
List == [t |-> "list", v |-> <<1, 2>>]
Dict(f) == [t |-> "dict", m |-> f]
IsDict(x) == x.t = "dict"
EmptyDict == Dict(<<>>)

Keys == {"a", "b"}
Scalars == {Null, Num(1), List}

\* the mappings from a subset of Keys into the set V
DictsOver(V) == UNION {{Dict(f) : f \in [K -> V]} : K \in SUBSET Keys}

Values1 == Scalars \cup DictsOver(Scalars)
Values2 == Scalars \cup DictsOver(Values1)

NotYet == [t |-> "notyet"]

----------------------------------------------------------------------------
(* configuration.py, _merge_dicts, lines 26-34 *)

RECURSIVE _merge_dicts(_, _)
_merge_dicts(o, update) ==
    IF ~IsDict(update) \/ ~IsDict(o)
    THEN update
    ELSE Dict([key \in DOMAIN o.m |->
                 IF key \in DOMAIN update.m
                 THEN _merge_dicts(o.m[key], update.m[key])
                 ELSE o.m[key]])

InitMerge ==
    /\ call = "_merge_dicts"
    /\ m_obj \in Values2
    /\ m_update \in Values2
    /\ m_result = NotYet

IdleMerge ==
    /\ m_obj = Null
    /\ m_update = Null
    /\ m_result = NotYet

MergeCall ==
    /\ call = "_merge_dicts"
    /\ m_result = NotYet
    /\ m_result' = _merge_dicts(m_obj, m_update)
    /\ UNCHANGED <<call, outfile, m_obj, m_update, cfgvars, shellvars, runvars>>

----------------------------------------------------------------------------
(* configuration.py, build_config_file, lines 60-76 *)

MaxSources == 2

Suffixes == {".json", ".yaml", ".yml", ".toml"}

\* what a source file can hold once parsed
FileValues ==
    { Dict("a" :> Num(1)),
      Dict("a" :> Null),
      Dict("a" :> Dict("a" :> Num(1)) @@ "b" :> Num(1)),
      Dict("a" :> Dict("b" :> Null)),
      List }

\* a source: its suffix, whether it exists, whether its text parses, and
\* the value it parses to
Sources ==
    [suffix : Suffixes, state : {"missing", "malformed"}, val : {Null}]
    \cup [suffix : Suffixes, state : {"ok"}, val : FileValues]

SeqsUpTo(S, n) == UNION {[1..k -> S] : k \in 0..n}

NoFile == [written |-> FALSE]
Written(v) == [written |-> TRUE, content |-> v]

InitConfig ==
    /\ call = "build_config_file"
    /\ filenames \in SeqsUpTo(Sources, MaxSources)
    /\ c_pc = IF Len(filenames) = 0 THEN "write" ELSE "open"
    /\ c_i = 1
    /\ obj = EmptyDict
    /\ opened = <<>>
    /\ parsed = <<>>
    /\ merged = <<>>
    /\ c_error = "none"
    /\ prior \in {NoFile, Written(Dict("a" :> Num(1)))}
    /\ persisted = prior

IdleConfig ==
    /\ filenames = <<>>
    /\ c_pc = "idle"
    /\ c_i = 1
    /\ obj = EmptyDict
    /\ opened = <<>>
    /\ parsed = <<>>
    /\ merged = <<>>
    /\ c_error = "none"
    /\ prior = NoFile
    /\ persisted = prior

\* Raise, had the write of lines 74-75 been in a finally clause
RaiseAfterDump(e) ==
    /\ c_pc' = "raised"
    /\ c_error' = e
    /\ persisted' = Written(obj)
    /\ UNCHANGED <<c_i, obj, parsed, merged>>

\* lines 63-71: an exception leaves the loop and the function; lines 74-75
\* are not reached
Raise(e) ==
    /\ c_pc' = "raised"
    /\ c_error' = e
    /\ UNCHANGED <<c_i, obj, parsed, merged, persisted>>

\* line 63: path.open("r")
OpenSource ==
    /\ call = "build_config_file"
    /\ c_pc = "open"
    /\ IF filenames[c_i].state = "missing"
       THEN /\ Raise("FileNotFoundError")
            /\ UNCHANGED opened
       ELSE /\ opened' = Append(opened, c_i)
            /\ c_pc' = "load"
            /\ UNCHANGED <<c_i, obj, parsed, merged, c_error, persisted>>
    /\ UNCHANGED <<call, outfile, mergevars, shellvars, runvars, filenames, prior>>

\* SupportedSuffix, had line 66 left out ".yml"
SupportedSuffixNoYml(s) == s = ".json" \/ s = ".yaml"

\* lines 64 and 66: the suffixes that are parsed
SupportedSuffix(s) == s = ".json" \/ s \in {".yaml", ".yml"}

\* lines 64-72: the suffix test, the parse, the merge into obj
LoadSource ==
    /\ call = "build_config_file"
    /\ c_pc = "load"
    /\ LET f == filenames[c_i] IN
       IF ~SupportedSuffix(f.suffix)
       THEN /\ Raise("ValueError")
       ELSE IF f.state = "malformed"
       THEN /\ Raise("ParseError")
       ELSE /\ parsed' = Append(parsed, c_i)
            /\ obj' = _merge_dicts(obj, f.val)
            /\ merged' = Append(merged, c_i)
            /\ c_i' = c_i + 1
            /\ c_pc' = IF c_i = Len(filenames) THEN "write" ELSE "open"
            /\ UNCHANGED <<c_error, persisted>>
    /\ UNCHANGED <<call, outfile, mergevars, shellvars, runvars, filenames, opened, prior>>

\* lines 74-76: write the merged object and return it
WriteConfig ==
    /\ call = "build_config_file"
    /\ c_pc = "write"
    /\ persisted' = Written(obj)
    /\ c_pc' = "returned"
    /\ UNCHANGED <<call, outfile, mergevars, shellvars, runvars, filenames, c_i, obj, opened,
                   parsed, merged, c_error, prior>>


----------------------------------------------------------------------------
(* code_runners.py, wrap_with_shell_command, lines 71-96.                  *)
(* The parent and the child are two processes; a KeyboardInterrupt is      *)
(* raised in the parent wherever it is when the signal arrives.            *)

MaxInterrupts == 2
MaxOutput == 3
PipeCapacity == 2

ExitCodes == {"0", "1"}

InitShell ==
    /\ call = "wrap_with_shell_command"
    /\ outfile \in {"None", "path"}
    /\ s_pc = "start"
    /\ s_status = "none"
    /\ process = "none"
    /\ returncode = "none"
    /\ to_write \in 0..MaxOutput
    /\ pipe = 0
    /\ received = 0
    /\ sent = 0

IdleShell ==
    /\ s_pc = "idle"
    /\ s_status = "none"
    /\ process = "none"
    /\ returncode = "none"
    /\ to_write = 0
    /\ pipe = 0
    /\ received = 0
    /\ sent = 0

ShellFrame == UNCHANGED <<call, outfile, mergevars, cfgvars, runvars>>

\* lines 74-85: subprocess.Popen, its stdout and stderr the file or two pipes
Popen ==
    /\ call = "wrap_with_shell_command"
    /\ s_pc = "start"
    /\ process' = "running"
    /\ s_pc' = "loop"
    /\ UNCHANGED <<s_status, returncode, to_write, pipe, received, sent>>
    /\ ShellFrame

\* lines 87-93: into the try statement, to process.wait()
EnterWait ==
    /\ s_pc = "loop"
    /\ s_pc' = "wait"
    /\ UNCHANGED <<s_status, process, returncode, to_write, pipe, received, sent>>
    /\ ShellFrame

\* line 93: process.wait() returns once the child has exited
WaitReturns ==
    /\ s_pc = "wait"
    /\ process = "exited"
    /\ s_pc' = "exit"
    /\ UNCHANGED <<s_status, process, returncode, to_write, pipe, received, sent>>
    /\ ShellFrame

\* the status line 94 exits with
ExitStatus == "0"

\* line 94: exit(0)
Exit ==
    /\ s_pc = "exit"
    /\ s_pc' = "terminated"
    /\ s_status' = ExitStatus
    /\ UNCHANGED <<process, returncode, to_write, pipe, received, sent>>
    /\ ShellFrame

\* the places of the parent that lines 92-95 guard: the body of the try
InTry(pc) == pc \in {"wait", "exit"}

\* a KeyboardInterrupt raised inside the try: line 95 catches it
InterruptCaught ==
    /\ InTry(s_pc)
    /\ received < MaxInterrupts
    /\ received' = received + 1
    /\ s_pc' = "except"
    /\ UNCHANGED <<s_status, process, returncode, to_write, pipe, sent>>
    /\ ShellFrame

\* a KeyboardInterrupt raised outside the try (between Popen and the try,
\* lines 86-92, or in the handler, line 96): nothing catches it and the
\* parent ends with the traceback
InterruptUncaught ==
    /\ s_pc \in {"loop", "except"}
    /\ received < MaxInterrupts
    /\ received' = received + 1
    /\ s_pc' = "terminated"
    /\ s_status' = "KeyboardInterrupt"
    /\ UNCHANGED <<process, returncode, to_write, pipe, sent>>
    /\ ShellFrame

\* line 96: process.send_signal(signal.SIGINT), which signals a child that
\* has not exited and does nothing otherwise; then back to the loop
SendSignal ==
    /\ s_pc = "except"
    /\ sent' = IF process = "running" THEN sent + 1 ELSE sent
    /\ s_pc' = "loop"
    /\ UNCHANGED <<s_status, process, returncode, to_write, pipe, received>>
    /\ ShellFrame

\* whether the child's next write can complete: a file takes it, a pipe
\* nobody reads takes it while there is room (lines 76-85)
CanWrite == outfile = "path" \/ pipe < PipeCapacity

\* the child writes one unit of output
ChildWrite ==
    /\ process = "running"
    /\ to_write > 0
    /\ CanWrite
    /\ to_write' = to_write - 1
    /\ pipe' = IF outfile = "None" THEN pipe + 1 ELSE pipe
    /\ UNCHANGED <<s_pc, s_status, process, returncode, received, sent>>
    /\ ShellFrame

\* the child has written all its output and exits, with any code
ChildExit ==
    /\ process = "running"
    /\ to_write = 0
    /\ \E code \in ExitCodes : returncode' = code
    /\ process' = "exited"
    /\ UNCHANGED <<s_pc, s_status, to_write, pipe, received, sent>>
    /\ ShellFrame

\* the child dies of a SIGINT it was sent (a child that handles the signal
\* never takes this step)
ChildKilled ==
    /\ process = "running"
    /\ sent > 0
    /\ returncode' = "SIGINT"
    /\ process' = "exited"
    /\ UNCHANGED <<s_pc, s_status, to_write, pipe, received, sent>>
    /\ ShellFrame

----------------------------------------------------------------------------
(* code_runners.py, make_script_globals, lines 21-28 *)

\* f overridden by g, as dict.update does
Update(f, g) == g @@ f

make_script_globals(name, kwargs) ==
    Update([k \in {"__file__", "__name__", "__package__", "__cached__"} |->
              CASE k = "__file__" -> "resolved_path"
                [] k = "__name__" -> name
                [] OTHER -> "None"],
           kwargs)

KwargsChoices == { <<>>, "__name__" :> "other", "extra" :> "value" }

----------------------------------------------------------------------------
(* code_runners.py, run_script, lines 124-131, and cprofile, lines 43-45.  *)
(* The target is any program: it runs some statements, each one binding or *)
(* deleting a global name, and then returns or raises.                     *)

MaxSteps == 2

TargetNames == {"__name__", "x"}

InitRun ==
    /\ call \in {"run_script", "cprofile"}
    /\ outfile \in {"None", "path"}
    /\ r_pc = "start"
    /\ as_module \in BOOLEAN
    /\ g_name \in {"__main__", "mod"}
    /\ g_kwargs \in KwargsChoices
    /\ G = make_script_globals(g_name, g_kwargs)
    /\ ns = <<>>
    /\ steps = 0
    /\ runner = "none"
    /\ runner_arg = "none"
    /\ prior_out \in {"console_out", "callers_stream"}
    /\ prior_err = "console_err"
    /\ sys_stdout = prior_out
    /\ sys_stderr = prior_err
    /\ old_targets = <<>>
    /\ outstream = "none"

IdleRun ==
    /\ r_pc = "idle"
    /\ as_module = TRUE
    /\ g_name = "__main__"
    /\ g_kwargs = <<>>
    /\ G = <<>>
    /\ ns = <<>>
    /\ steps = 0
    /\ runner = "none"
    /\ runner_arg = "none"
    /\ prior_out = "console_out"
    /\ prior_err = "console_err"
    /\ sys_stdout = prior_out
    /\ sys_stderr = prior_err
    /\ old_targets = <<>>
    /\ outstream = "none"

RunFrame == UNCHANGED <<call, outfile, mergevars, cfgvars, shellvars>>

\* the namespace runpy builds for the target: a new mapping holding
\* init_globals, in which runpy then sets the module's own attributes
\* (run_name among them)
RunpyNamespace(init_globals) ==
    Update(init_globals, "__name__" :> "__main__" @@ "__file__" :> "module_file")

\* line 129 / line 131: the first argument given to the runner
RunnerArg(out) == IF out # "None" THEN "stem" ELSE "resolved_path"

\* lines 124-131, up to the call of the runner: with an outfile the file is
\* opened and sys.stderr, then sys.stdout, are redirected to it
RunScriptBegin ==
    /\ call = "run_script"
    /\ r_pc = "start"
    /\ runner' = IF as_module THEN "run_module" ELSE "run_path"
    /\ runner_arg' = RunnerArg(outfile)
    /\ IF outfile # "None"
       THEN /\ outstream' = "open"
            /\ old_targets' = <<sys_stderr, sys_stdout>>
            /\ sys_stderr' = "outstream"
            /\ sys_stdout' = "outstream"
       ELSE UNCHANGED <<outstream, old_targets, sys_stderr, sys_stdout>>
    /\ ns' = RunpyNamespace(G)
    /\ r_pc' = "running"
    /\ UNCHANGED <<as_module, g_name, g_kwargs, G, steps, prior_out, prior_err>>
    /\ RunFrame

\* lines 43-45: compile the file and cProfile.runctx(code, globals, None,
\* outfile, -1), which is exec(code, globals): the target's global namespace
\* is the mapping itself, and exec adds __builtins__ to it
CProfileBegin ==
    /\ call = "cprofile"
    /\ r_pc = "start"
    /\ runner' = "exec"
    /\ runner_arg' = "code"
    /\ G' = Update(G, "__builtins__" :> "builtins")
    /\ ns' = G'
    /\ r_pc' = "running"
    /\ UNCHANGED <<as_module, g_name, g_kwargs, steps, prior_out, prior_err,
                   sys_stdout, sys_stderr, old_targets, outstream>>
    /\ RunFrame

\* GlobalsAfter, had the runner of run_script run the target in globals too
GlobalsAfterShared(n) == n

\* the caller's mapping after the target's namespace became n: cprofile's
\* target runs in the mapping itself (line 45), run_script's in runpy's
\* copy (lines 124-131)
GlobalsAfter(n) == IF call = "cprofile" THEN n ELSE G

Delete(f, k) == [x \in DOMAIN f \ {k} |-> f[x]]

\* the target binds a global name
TargetAssign ==
    /\ r_pc = "running"
    /\ steps < MaxSteps
    /\ \E k \in TargetNames : ns' = Update(ns, k :> "assigned")
    /\ G' = GlobalsAfter(ns')
    /\ steps' = steps + 1
    /\ UNCHANGED <<r_pc, as_module, g_name, g_kwargs, runner, runner_arg, prior_out,
                   prior_err, sys_stdout, sys_stderr, old_targets, outstream>>
    /\ RunFrame

\* the target deletes a global name
TargetDelete ==
    /\ r_pc = "running"
    /\ steps < MaxSteps
    /\ \E k \in DOMAIN ns : ns' = Delete(ns, k)
    /\ G' = GlobalsAfter(ns')
    /\ steps' = steps + 1
    /\ UNCHANGED <<r_pc, as_module, g_name, g_kwargs, runner, runner_arg, prior_out,
                   prior_err, sys_stdout, sys_stderr, old_targets, outstream>>
    /\ RunFrame

\* LeaveWith, had the streams been restored after the runner's call and not
\* by a with statement: an exception skips it
LeaveWithoutFinally(outcome) ==
    IF old_targets = <<>> \/ outcome = "raised"
    THEN <<sys_stderr, sys_stdout, outstream>>
    ELSE <<old_targets[1], old_targets[2], "closed">>

\* lines 127-128 on the way out, by return or by exception: the with
\* statements restore sys.stdout, then sys.stderr, and close the file
\* <<sys.stderr, sys.stdout, outstream>> after the run
LeaveWith(outcome) ==
    IF old_targets = <<>>
    THEN <<sys_stderr, sys_stdout, outstream>>
    ELSE <<old_targets[1], old_targets[2], "closed">>

\* the target returns or raises; the exception goes on to the caller
TargetEnds ==
    /\ r_pc = "running"
    /\ \E outcome \in {"returned", "raised"} :
          /\ r_pc' = outcome
          /\ sys_stderr' = LeaveWith(outcome)[1]
          /\ sys_stdout' = LeaveWith(outcome)[2]
          /\ outstream' = LeaveWith(outcome)[3]
    /\ old_targets' = <<>>
    /\ UNCHANGED <<as_module, g_name, g_kwargs, G, ns, steps, runner, runner_arg,
                   prior_out, prior_err>>
    /\ RunFrame

----------------------------------------------------------------------------

Init ==
    \/ InitMerge /\ IdleConfig /\ IdleShell /\ IdleRun /\ outfile = "None"
    \/ InitConfig /\ IdleMerge /\ IdleShell /\ IdleRun /\ outfile = "None"
    \/ InitShell /\ IdleMerge /\ IdleConfig /\ IdleRun
    \/ InitRun /\ IdleMerge /\ IdleConfig /\ IdleShell

Next ==
    \/ MergeCall
    \/ OpenSource
    \/ LoadSource
    \/ WriteConfig
    \/ Popen
    \/ EnterWait
    \/ WaitReturns
    \/ Exit
    \/ InterruptCaught
    \/ InterruptUncaught
    \/ SendSignal
    \/ ChildWrite
    \/ ChildExit
    \/ ChildKilled
    \/ RunScriptBegin
    \/ CProfileBegin
    \/ TargetAssign
    \/ TargetDelete
    \/ TargetEnds

Spec == Init /\ [][Next]_vars

----------------------------------------------------------------------------
(* The properties checked. *)

\* C1: two mapping sources S1, S2 merged in that order by build_config_file
\* give a result with merged[k] = S2[k] for every key k of S2, null included.
C1_MergePrecedence ==
    (/\ call = "build_config_file"
     /\ c_pc = "returned"
     /\ Len(filenames) = 2
     /\ IsDict(filenames[1].val)
     /\ IsDict(filenames[2].val))
    => /\ IsDict(obj)
       /\ \A k \in DOMAIN filenames[2].val.m :
             /\ k \in DOMAIN obj.m
             /\ obj.m[k] = filenames[2].val.m[k]

\* the result r of merging update u onto base b has, at every nesting level,
\* the keys of b and of u, the base's value at a key only b has and the
\* update's value at a key only u has
RECURSIVE KeyUnion(_, _, _)
KeyUnion(b, u, r) ==
    IF IsDict(b) /\ IsDict(u)
    THEN /\ IsDict(r)
         /\ DOMAIN r.m = DOMAIN b.m \cup DOMAIN u.m
         /\ \A k \in DOMAIN b.m \cup DOMAIN u.m :
               IF k \notin DOMAIN u.m THEN r.m[k] = b.m[k]
               ELSE IF k \notin DOMAIN b.m THEN r.m[k] = u.m[k]
               ELSE KeyUnion(b.m[k], u.m[k], r.m[k])
    ELSE TRUE

\* C2: _merge_dicts' result has, at every nesting level, the union of the
\* base's and the update's keys; a key only in the base keeps its value and a
\* key only in the update is added with the update's value.
C2_KeyUnion ==
    (call = "_merge_dicts" /\ m_result # NotYet)
    => KeyUnion(m_obj, m_update, m_result)

\* C3: in wrap_with_shell_command the parent never terminates while the child
\* runs, and the child has been sent one SIGINT for every interrupt the
\* parent received while the child ran.
C3_ForwardsEveryInterrupt ==
    /\ (s_pc = "terminated" => process = "exited")
    /\ sent <= received
    /\ (process = "running" /\ s_pc \in {"loop", "wait"} => sent = received)

\* C4: when the parent terminates after the child has exited, its exit status
\* is 0, whatever the child's exit code.
C4_ExitZeroAfterChild ==
    [][(process = "exited" /\ s_pc # "terminated" /\ s_pc' = "terminated")
         => s_status' = "0"]_vars

\* C5: when build_config_file fails on a source (missing file, unsupported
\* extension, malformed text), at any position, ROOT_CONFIG_FILE holds what
\* it held before the call.
C5_NoPartialPersist ==
    (call = "build_config_file" /\ c_pc = "raised") => persisted = prior

\* C5's case: the call failed after it had merged at least one source.
C5_Witness ==
    /\ c_pc = "raised"
    /\ Len(merged) >= 1
    /\ prior # Written(obj)

\* the extensions sections 4.1 and 6 of the specification name
RecognisedSuffixes == {".json", ".yaml", ".yml"}
Unsupported(i) == filenames[i].suffix \notin RecognisedSuffixes
Fails(i) ==
    \/ filenames[i].state \in {"missing", "malformed"}
    \/ Unsupported(i)
FirstFailing ==
    CHOOSE j \in 1..Len(filenames) : Fails(j) /\ \A k \in 1..(j - 1) : ~Fails(k)
Upto(n) == [k \in 1..n |-> k]
CallEnded == call = "build_config_file" /\ c_pc \in {"returned", "raised"}

C7_StreamsRestored ==
    (call = "run_script" /\ outfile # "None")
    => /\ r_pc = "start"
            => sys_stdout = prior_out /\ sys_stderr = prior_err /\ outstream = "none"
       /\ r_pc = "running"
            => sys_stdout = "outstream" /\ sys_stderr = "outstream" /\ outstream = "open"
       /\ r_pc \in {"returned", "raised"}
            => sys_stdout = prior_out /\ sys_stderr = prior_err /\ outstream = "closed"

\* C7's case: the target raised, under a stdout the caller had set.
C7_Witness ==
    /\ call = "run_script"
    /\ outfile # "None"
    /\ r_pc = "raised"
    /\ prior_out = "callers_stream"
    /\ steps > 0

\* C8: in run_script a module run is given the target's base name and a path
\* run the target's path, with or without an outfile.
C8_NamedByFlagAlone ==
    (call = "run_script" /\ r_pc # "start")
    => /\ runner = (IF as_module THEN "run_module" ELSE "run_path")
       /\ runner_arg = (IF as_module THEN "stem" ELSE "resolved_path")

C10_WaitNeverBlocksForever ==
    (call = "wrap_with_shell_command" /\ outfile = "None"
       /\ s_pc = "wait" /\ process = "running")
    => ENABLED (ChildWrite \/ ChildExit)

====
